---- MODULE Spec2Model ----
(***************************************************************************)
(* dylibify (src/cpp/dylibify-lief-cpp.cpp): conversion of a Mach-O        *)
(* executable into a dylib, with removal of dependencies, remapping of the *)
(* library ordinals held by symbols, and synthesis of a stub dylib for the *)
(* symbols whose library was removed.                                      *)
(*                                                                         *)
(* The state is the state of one call of dylibify(): the parsed slices     *)
(* (binaries), the arguments, the locals of the loop body, the position in *)
(* the function (pc), and a record of the external effects (calls,         *)
(* written).                                                               *)
(*                                                                         *)
(* Input assumptions, all stated with the definitions that carry them:     *)
(*  - dependency names are unique within a slice and none of them equals   *)
(*    the stub's install name;                                             *)
(*  - a symbol that is in LC_SYMTAB and has a binding record carries the   *)
(*    same library in both encodings (as the static linker emits it);      *)
(*  - symbol names are unique and start with "_" (create_stub_objc is not  *)
(*    modelled beyond the success or failure of the compiler call).        *)
(***************************************************************************)
EXTENDS Integers, Sequences, FiniteSets, TLC

(* ------------------------------ bounds --------------------------------- *)
MaxLibs == 2
MaxSyms == 2
MaxSlices == 2
FatNameCount == 2
MaxWideLibs == 257

(* --------------------------- program constants ------------------------- *)
SELF_LIBRARY_ORDINAL == 0
DYNAMIC_LOOKUP_ORDINAL == 254
EXECUTABLE_ORDINAL == 255

BIND_SPECIAL_DYLIB_SELF == 0
BIND_SPECIAL_DYLIB_MAIN_EXECUTABLE == -1
BIND_SPECIAL_DYLIB_FLAT_LOOKUP == -2

LegacySentinels == {SELF_LIBRARY_ORDINAL, DYNAMIC_LOOKUP_ORDINAL, EXECUTABLE_ORDINAL}
ModernSentinels ==
    {BIND_SPECIAL_DYLIB_SELF, BIND_SPECIAL_DYLIB_MAIN_EXECUTABLE, BIND_SPECIAL_DYLIB_FLAT_LOOKUP}

fat_stub_filename == "dylibify-stubs.dylib"
new_dylib_path == "@executable_path/out.dylib"
StubPath == "@executable_path/dylibify-stubs.dylib"
Uninit == "<disengaged>"
GarbageKey == "<garbage>"

ArchOf(cpu) ==
    CASE cpu = "CPU_TYPE_X86" -> "i386"
      [] cpu = "CPU_TYPE_X86_64" -> "x86_64"
      [] cpu = "CPU_TYPE_ARM" -> "armv7"
      [] cpu = "CPU_TYPE_ARM64" -> "arm64"
      [] OTHER -> "<none>"

arch_map_keys == {"CPU_TYPE_X86", "CPU_TYPE_X86_64", "CPU_TYPE_ARM", "CPU_TYPE_ARM64"}

(* ------------------------- packed descriptor --------------------------- *)
get_library_ordinal(n_desc) == (n_desc \div 256) % 256

set_library_ordinal(n_desc, ordinal) == (n_desc % 256) + ((ordinal % 256) * 256)

(* ------------------------------ std::map ------------------------------- *)
EmptyMap == [k \in {} |-> 0]

Emplace(m, k, v) == IF k \in DOMAIN m THEN m ELSE (k :> v) @@ m

(* ----------------------------- input space ----------------------------- *)
AllNames == <<"libA", "libB", "libC", "libD">>

NameSet(n) == {AllNames[i] : i \in 1..n}

LoadCmd(n) == [name |-> n, command |-> "LC_LOAD_DYLIB"]

IdCmd(n) == [name |-> n, command |-> "LC_ID_DYLIB"]

Tables(names, lo, hi) ==
    UNION {{[i \in 1..k |-> LoadCmd(g[i])] :
              g \in {h \in [1..k -> names] : \A i, j \in 1..k : i # j => h[i] # h[j]}} :
           k \in lo..hi}

LegacyOf(bord) ==
    CASE bord = BIND_SPECIAL_DYLIB_MAIN_EXECUTABLE -> EXECUTABLE_ORDINAL
      [] bord = BIND_SPECIAL_DYLIB_FLAT_LOOKUP -> DYNAMIC_LOOKUP_ORDINAL
      [] OTHER -> bord

SymtabOnly(o) ==
    [origin |-> "SYM_ORIGIN_LC_SYMTAB", has_binding_info |-> FALSE,
     library_ordinal |-> 0, description |-> o * 256 + 64]

Bound(o) ==
    [origin |-> "SYM_ORIGIN_LC_SYMTAB", has_binding_info |-> TRUE,
     library_ordinal |-> o, description |-> LegacyOf(o) * 256 + 1]

BindOnly(o) ==
    [origin |-> "SYM_ORIGIN_DYLD_BIND", has_binding_info |-> TRUE,
     library_ordinal |-> o, description |-> 0]

LegacyOrdinals ==
    <<SELF_LIBRARY_ORDINAL, DYNAMIC_LOOKUP_ORDINAL, EXECUTABLE_ORDINAL>>
        \o [i \in 1..MaxLibs |-> i]

ModernOrdinals ==
    <<BIND_SPECIAL_DYLIB_SELF, BIND_SPECIAL_DYLIB_MAIN_EXECUTABLE,
      BIND_SPECIAL_DYLIB_FLAT_LOOKUP>> \o [i \in 1..MaxLibs |-> i]

(* the symbols a slice may hold, in the order they are listed in a table *)
RichSymbols ==
    [i \in DOMAIN LegacyOrdinals |-> SymtabOnly(LegacyOrdinals[i])]
        \o [i \in DOMAIN ModernOrdinals |-> Bound(ModernOrdinals[i])]
        \o [i \in 1..MaxLibs |-> BindOnly(i)]

(* symbol tables of at most hi distinct symbols of choices; the passes treat
   each symbol on its own, so one order per set of symbols is enumerated *)
SymSeqs(choices, hi) ==
    UNION {{[i \in 1..k |-> choices[g[i]]] :
              g \in {h \in [1..k -> DOMAIN choices] :
                        \A a, b \in 1..k : a < b => h[a] < h[b]}} :
           k \in 0..hi}

Slice(cpu, ft, libs, syms) ==
    [cpu_type |-> cpu, file_type |-> ft, no_reexported_dylibs |-> FALSE,
     libraries |-> libs, symbols |-> syms]

RichSlices ==
    {Slice("CPU_TYPE_ARM64", "MH_EXECUTE", t, s) :
        t \in Tables(NameSet(MaxLibs), 0, MaxLibs), s \in SymSeqs(RichSymbols, MaxSyms)}

DylibSlices ==
    {Slice("CPU_TYPE_ARM64", "MH_DYLIB", <<IdCmd("@rpath/in.dylib")>> \o t, <<>>) :
        t \in Tables(NameSet(MaxLibs), 0, MaxLibs)}

FatCpus == {"CPU_TYPE_X86_64", "CPU_TYPE_ARM64", "CPU_TYPE_POWERPC"}

(* slices of a multi-architecture input: one dependency each, with or
   without a symbol bound to it *)
FatSlices ==
    {Slice(c, "MH_EXECUTE", <<LoadCmd(n)>>, s) :
        c \in FatCpus, n \in NameSet(FatNameCount),
        s \in SymSeqs(<<Bound(1)>>, 1)}

Requests(names) ==
    {[remove_dylibs |-> r, auto_remove_dylibs |-> FALSE] : r \in SUBSET names} \cup
    {[remove_dylibs |-> {}, auto_remove_dylibs |-> TRUE]}

(* ------------------------------- state --------------------------------- *)
VARIABLES
    binaries, parsed, remove_dylibs, auto_remove_dylibs,
    pc, idx, fail,
    orig_libraries, orig_ordinal_map, orig_syms_to_libs,
    remove_dylib_set, remove_sym_set,
    new_ordinal_map, orig_to_new_ordinal_map,
    stub_path, thin_stubs, calls, written, pruned

vars ==
    <<binaries, parsed, remove_dylibs, auto_remove_dylibs, pc, idx, fail,
      orig_libraries, orig_ordinal_map, orig_syms_to_libs,
      remove_dylib_set, remove_sym_set, new_ordinal_map, orig_to_new_ordinal_map,
      stub_path, thin_stubs, calls, written, pruned>>

args == <<parsed, remove_dylibs, auto_remove_dylibs>>

locals ==
    <<orig_libraries, orig_ordinal_map, orig_syms_to_libs, remove_dylib_set,
      remove_sym_set, new_ordinal_map, orig_to_new_ordinal_map>>

effects == <<thin_stubs, calls, written>>

(* pruned[j] records the removal set computed for slice j (history only) *)

InitWith(bins, req) ==
    /\ binaries = bins
    /\ parsed = bins
    /\ remove_dylibs = req.remove_dylibs
    /\ auto_remove_dylibs = req.auto_remove_dylibs
    /\ pc = "loop"
    /\ idx = 1
    /\ fail = "none"
    /\ orig_libraries = {}
    /\ orig_ordinal_map = EmptyMap
    /\ orig_syms_to_libs = EmptyMap
    /\ remove_dylib_set = {}
    /\ remove_sym_set = {}
    /\ new_ordinal_map = EmptyMap
    /\ orig_to_new_ordinal_map = EmptyMap
    /\ stub_path = Uninit
    /\ thin_stubs = <<>>
    /\ calls = <<>>
    /\ written = 0
    /\ pruned = <<>>

Init ==
    \/ \E b \in RichSlices, req \in Requests(NameSet(MaxLibs)) : InitWith(<<b>>, req)
    \/ \E b \in DylibSlices : InitWith(<<b>>, [remove_dylibs |-> {}, auto_remove_dylibs |-> FALSE])

InitFat ==
    \E bins \in UNION {[1..n -> FatSlices] : n \in 1..MaxSlices},
       req \in Requests(NameSet(FatNameCount)) : InitWith(bins, req)

(* inputs with a dependency table long enough for a new ordinal to reach
   the top of the 8-bit sub-field of n_desc: MaxWideLibs - 4 .. MaxWideLibs
   dependencies, LC_SYMTAB symbols that name the first, the second or the
   253rd of them, with and without a binding record *)
WideName(i) == "lib" \o ToString(i)

WideTable(n) == [i \in 1..n |-> LoadCmd(WideName(i))]

WideSymbols ==
    <<Bound(1), Bound(2), Bound(253), SymtabOnly(1), SymtabOnly(2),
      [SymtabOnly(253) EXCEPT !.description = 253 * 256 + 255]>>

WideSlices ==
    {Slice("CPU_TYPE_ARM64", "MH_EXECUTE", WideTable(n), s) :
        n \in (MaxWideLibs - 4)..MaxWideLibs, s \in SymSeqs(WideSymbols, 2)}

WideRequests ==
    {[remove_dylibs |-> r, auto_remove_dylibs |-> FALSE] :
        r \in {{}, {WideName(1)}, {WideName(2)}, {WideName(1), WideName(2)}}}

InitWide == \E b \in WideSlices, req \in WideRequests : InitWith(<<b>>, req)

(* ------------------------------ helpers -------------------------------- *)
IsSelf(cmd) == cmd.command = "LC_ID_DYLIB"

NonSelf(libs) == SelectSeq(libs, LAMBDA c : ~IsSelf(c))

OrigLibraries(libs) == {libs[i].name : i \in {j \in DOMAIN libs : ~IsSelf(libs[j])}}

(* variant: the self-identity entry is numbered like any other entry *)
RECURSIVE ScanOrdinals_NoSkip(_, _, _, _)
ScanOrdinals_NoSkip(libs, i, ordinal_idx, m) ==
    IF i > Len(libs) THEN m
    ELSE ScanOrdinals_NoSkip(libs, i + 1, ordinal_idx + 1,
                             Emplace(m, libs[i].name, ordinal_idx))

(* one iteration of the loop of lines 180-186 on entry i; st holds the loop's
   ordinal index and the map built so far *)
ScanEntry(libs, i, st) ==
    IF IsSelf(libs[i]) THEN st
    ELSE [ordinal_idx |-> st.ordinal_idx + 1,
          map |-> Emplace(st.map, libs[i].name, st.ordinal_idx)]

(* the iterations lo..hi in declaration order, the range split in halves so
   that the evaluation depth stays logarithmic in the table length; the test
   on the ordinal index, which never decreases, has the first half evaluated
   before the second is entered *)
RECURSIVE ScanRange(_, _, _, _)
ScanRange(libs, lo, hi, st) ==
    IF lo > hi THEN st
    ELSE IF lo = hi THEN ScanEntry(libs, lo, st)
    ELSE LET mid == (lo + hi) \div 2
             first == ScanRange(libs, lo, mid, st)
         IN IF first.ordinal_idx >= st.ordinal_idx
            THEN ScanRange(libs, mid + 1, hi, first)
            ELSE first

ScanOrdinals(libs, i, ordinal_idx, m) ==
    ScanRange(libs, i, Len(libs), [ordinal_idx |-> ordinal_idx, map |-> m]).map

(* variant: numbering starts at 0 *)
OrdinalMap_FromZero(libs) == ScanOrdinals(libs, 1, 0, EmptyMap)

OrdinalMap(libs) == ScanOrdinals(libs, 1, 1, EmptyMap)

has_library(bin, sym) ==
    sym.has_binding_info /\ sym.library_ordinal \in 1..Len(NonSelf(bin.libraries))

library_name(bin, sym) == NonSelf(bin.libraries)[sym.library_ordinal].name

SymsToLibs(bin) ==
    [k \in {j \in DOMAIN bin.symbols : has_library(bin, bin.symbols[j])} |->
        library_name(bin, bin.symbols[k])]

OrphanSyms(syms_to_libs, removed) ==
    {k \in DOMAIN syms_to_libs : syms_to_libs[k] \in removed}

(* variant: the removal loop stops after its first element *)
WithoutDylibs_FirstOnly(libs, removed) ==
    IF removed = {} THEN libs
    ELSE LET first == CHOOSE n \in removed : TRUE
         IN SelectSeq(libs, LAMBDA c : IsSelf(c) \/ c.name # first)

WithoutDylibs(libs, removed) ==
    SelectSeq(libs, LAMBDA c : IsSelf(c) \/ c.name \notin removed)

StubKey(sp) == IF sp = Uninit THEN GarbageKey ELSE sp

(* variant: surviving ordinals are kept as they were *)
OrigToNewMap_Identity(orig, new, key) ==
    [o \in {orig[n] : n \in DOMAIN orig} |->
        LET n == CHOOSE x \in DOMAIN orig : orig[x] = o
        IN IF n \in DOMAIN new THEN o
           ELSE IF key \in DOMAIN new THEN new[key] ELSE 0]

OrigToNewMap(orig, new, key) ==
    [o \in {orig[n] : n \in DOMAIN orig} |->
        LET n == CHOOSE x \in DOMAIN orig : orig[x] = o
        IN IF n \in DOMAIN new THEN new[n]
           ELSE IF key \in DOMAIN new THEN new[key] ELSE 0]

BindingsInRange(syms, o2n) ==
    \A k \in DOMAIN syms : syms[k].has_binding_info => syms[k].library_ordinal \in DOMAIN o2n

RewriteBinding(sym, o2n) ==
    IF sym.has_binding_info
    THEN [sym EXCEPT !.library_ordinal = o2n[sym.library_ordinal]]
    ELSE sym

SymtabSkipped(sym) ==
    \/ sym.origin # "SYM_ORIGIN_LC_SYMTAB"
    \/ get_library_ordinal(sym.description) \in LegacySentinels

SymtabInRange(syms, o2n) ==
    \A k \in DOMAIN syms :
        ~SymtabSkipped(syms[k]) => get_library_ordinal(syms[k].description) \in DOMAIN o2n

RewriteSymtabEntry(sym, o2n) ==
    IF SymtabSkipped(sym) THEN sym
    ELSE [sym EXCEPT !.description =
            set_library_ordinal(@, o2n[get_library_ordinal(sym.description)])]

Call(tool, slice, inputs, result) ==
    [tool |-> tool, slice |-> slice, inputs |-> inputs, result |-> result]

ProcessResults == {"ok", "launch_error", "nonzero_exit"}

Abort(why) ==
    /\ pc' = "aborted"
    /\ fail' = why

(* variant: the failure is reported but the function goes on to write *)
ReturnFalse_Continue(why) ==
    /\ pc' = "write"
    /\ fail' = why

ReturnFalse(why) ==
    /\ pc' = "failed"
    /\ fail' = why

(* ------------------------------ actions -------------------------------- *)
(* lines 169-194: loop entry, the three snapshots of the slice as parsed *)
Snapshot ==
    /\ pc = "loop"
    /\ idx <= Len(binaries)
    /\ LET bin == binaries[idx] IN
        /\ orig_libraries' = OrigLibraries(bin.libraries)
        /\ orig_ordinal_map' = OrdinalMap(bin.libraries)
        /\ orig_syms_to_libs' = SymsToLibs(bin)
    /\ remove_dylib_set' = {}
    /\ remove_sym_set' = {}
    /\ new_ordinal_map' = EmptyMap
    /\ orig_to_new_ordinal_map' = EmptyMap
    /\ pc' = "header"
    /\ UNCHANGED <<binaries, args, idx, fail, stub_path, effects>>
    /\ UNCHANGED pruned

(* lines 196-302: header patches and the new LC_ID_DYLIB command *)
PatchHeader ==
    /\ pc = "header"
    /\ IF binaries[idx].file_type # "MH_EXECUTE"
       THEN /\ Abort("assert:file_type")
            /\ UNCHANGED binaries
       ELSE /\ binaries' = [binaries EXCEPT
                    ![idx].file_type = "MH_DYLIB",
                    ![idx].no_reexported_dylibs = TRUE,
                    ![idx].libraries = Append(@, IdCmd(new_dylib_path))]
            /\ pc' = "prune"
            /\ UNCHANGED fail
    /\ UNCHANGED <<args, idx, locals, stub_path, effects>>
    /\ UNCHANGED pruned

(* lines 304-333: remove_dylib_set (explicit and auto-detected), remove_sym_set *)
PruneDependencies ==
    /\ pc = "prune"
    /\ IF \E d \in remove_dylibs : d \notin orig_libraries
       THEN /\ ReturnFalse("DependencyNotFound")
            /\ UNCHANGED <<remove_dylib_set, remove_sym_set, pruned>>
       ELSE /\ \E unavailable \in
                    (IF auto_remove_dylibs THEN SUBSET orig_libraries ELSE {{}}) :
                  /\ remove_dylib_set' = remove_dylibs \cup unavailable
                  /\ remove_sym_set' =
                        OrphanSyms(orig_syms_to_libs, remove_dylibs \cup unavailable)
                  /\ pruned' = Append(pruned, remove_dylibs \cup unavailable)
            /\ pc' = "remove"
            /\ UNCHANGED fail
    /\ UNCHANGED <<binaries, args, idx, orig_libraries, orig_ordinal_map, orig_syms_to_libs,
                   new_ordinal_map, orig_to_new_ordinal_map, stub_path, effects>>

(* lines 335-343: remove every load command of the removal set *)
RemoveDylibs ==
    /\ pc = "remove"
    /\ binaries' = [binaries EXCEPT
            ![idx].libraries = WithoutDylibs(@, remove_dylib_set)]
    /\ pc' = "stub"
    /\ UNCHANGED <<args, idx, fail, locals, stub_path, effects>>
    /\ UNCHANGED pruned

(* lines 345-353: the stub load command; *stub_path on a disengaged optional *)
AddStub ==
    /\ pc = "stub"
    /\ IF remove_sym_set # {}
       THEN \E trap \in BOOLEAN :
               IF trap
               THEN /\ Abort("optional:disengaged")
                    /\ UNCHANGED <<binaries, stub_path>>
               ELSE /\ stub_path' = StubPath
                    /\ binaries' = [binaries EXCEPT
                            ![idx].libraries = Append(@, LoadCmd(StubPath))]
                    /\ pc' = "ordinals"
                    /\ UNCHANGED fail
       ELSE /\ pc' = "ordinals"
            /\ UNCHANGED <<binaries, stub_path, fail>>
    /\ UNCHANGED <<args, idx, locals, effects>>
    /\ UNCHANGED pruned

(* lines 355-363: new_ordinal_map *)
NewOrdinals ==
    /\ pc = "ordinals"
    /\ new_ordinal_map' = OrdinalMap(binaries[idx].libraries)
    /\ pc' = "remap"
    /\ UNCHANGED <<binaries, args, idx, fail, orig_libraries, orig_ordinal_map,
                   orig_syms_to_libs, remove_dylib_set, remove_sym_set,
                   orig_to_new_ordinal_map, stub_path, effects>>
    /\ UNCHANGED pruned

(* lines 365-377: orig_to_new_ordinal_map; new_ordinal_map[*stub_path] inserts *)
OrigToNew ==
    /\ pc = "remap"
    /\ LET missing == {n \in DOMAIN orig_ordinal_map : n \notin DOMAIN new_ordinal_map}
           key == StubKey(stub_path)
       IN IF missing = {}
          THEN /\ orig_to_new_ordinal_map' =
                     OrigToNewMap(orig_ordinal_map, new_ordinal_map, key)
               /\ pc' = "bindings"
               /\ UNCHANGED <<new_ordinal_map, fail>>
          ELSE IF ~(missing \subseteq remove_dylib_set)
          THEN /\ Abort("assert:remove_dylib_set")
               /\ UNCHANGED <<new_ordinal_map, orig_to_new_ordinal_map>>
          ELSE \E trap \in BOOLEAN :
                  IF trap
                  THEN /\ Abort("optional:disengaged")
                       /\ UNCHANGED <<new_ordinal_map, orig_to_new_ordinal_map>>
                  ELSE /\ new_ordinal_map' = Emplace(new_ordinal_map, key, 0)
                       /\ orig_to_new_ordinal_map' =
                             OrigToNewMap(orig_ordinal_map, new_ordinal_map, key)
                       /\ pc' = "bindings"
                       /\ UNCHANGED fail
    /\ UNCHANGED <<binaries, args, idx, orig_libraries, orig_ordinal_map, orig_syms_to_libs,
                   remove_dylib_set, remove_sym_set, stub_path, effects>>
    /\ UNCHANGED pruned

(* lines 382-385: every binding record, no sentinel test, map::at throws *)
RewriteBindings ==
    /\ pc = "bindings"
    /\ IF BindingsInRange(binaries[idx].symbols, orig_to_new_ordinal_map)
       THEN /\ binaries' = [binaries EXCEPT ![idx].symbols =
                    [k \in DOMAIN @ |-> RewriteBinding(@[k], orig_to_new_ordinal_map)]]
            /\ pc' = "symtab"
            /\ UNCHANGED fail
       ELSE /\ Abort("out_of_range:bindings")
            /\ UNCHANGED binaries
    /\ UNCHANGED <<args, idx, locals, stub_path, effects>>
    /\ UNCHANGED pruned

(* lines 390-404: every LC_SYMTAB symbol, sentinels skipped *)
RewriteSymtab ==
    /\ pc = "symtab"
    /\ IF SymtabInRange(binaries[idx].symbols, orig_to_new_ordinal_map)
       THEN /\ binaries' = [binaries EXCEPT ![idx].symbols =
                    [k \in DOMAIN @ |-> RewriteSymtabEntry(@[k], orig_to_new_ordinal_map)]]
            /\ pc' = "thin"
            /\ UNCHANGED fail
       ELSE /\ Abort("out_of_range:symtab")
            /\ UNCHANGED binaries
    /\ UNCHANGED <<args, idx, locals, stub_path, effects>>
    /\ UNCHANGED pruned

(* lines 406-421 with create_thin_stub_dylib, lines 90-125 *)
ThinStub ==
    /\ pc = "thin"
    /\ IF remove_sym_set = {}
       THEN /\ pc' = "loop"
            /\ idx' = idx + 1
            /\ UNCHANGED <<fail, effects>>
       ELSE IF binaries[idx].cpu_type \notin arch_map_keys
       THEN /\ Abort("out_of_range:arch_map")
            /\ UNCHANGED <<idx, effects>>
       ELSE \E res \in ProcessResults \cup {"fopen_failed"} :
               IF res = "fopen_failed"
               THEN /\ Abort("assert:write_string_to_file")
                    /\ UNCHANGED <<idx, effects>>
               ELSE /\ calls' = Append(calls,
                          Call("clang", idx, <<ArchOf(binaries[idx].cpu_type)>>, res))
                    /\ UNCHANGED written
                    /\ IF res = "ok"
                       THEN /\ thin_stubs' =
                                  Append(thin_stubs, ArchOf(binaries[idx].cpu_type))
                            /\ pc' = "loop"
                            /\ idx' = idx + 1
                            /\ UNCHANGED fail
                       ELSE /\ ReturnFalse("ToolchainFailure:clang")
                            /\ UNCHANGED <<idx, thin_stubs>>
    /\ UNCHANGED <<binaries, args, locals, stub_path>>
    /\ UNCHANGED pruned

(* variant: only the first thin stub is handed to lipo *)
FatStub_FirstOnly ==
    /\ pc = "loop"
    /\ idx > Len(binaries)
    /\ IF thin_stubs = <<>>
       THEN /\ pc' = "write"
            /\ UNCHANGED <<fail, calls>>
       ELSE \E res \in ProcessResults :
               /\ calls' = Append(calls, Call("lipo", 0, <<Head(thin_stubs)>>, res))
               /\ IF res = "ok"
                  THEN /\ pc' = "write"
                       /\ UNCHANGED fail
                  ELSE ReturnFalse("ToolchainFailure:lipo")
    /\ UNCHANGED <<binaries, args, idx, locals, stub_path, thin_stubs, written>>
    /\ UNCHANGED pruned

(* variant: lipo is run whether or not a thin stub was built *)
FatStub_Always ==
    /\ pc = "loop"
    /\ idx > Len(binaries)
    /\ \E res \in ProcessResults :
          /\ calls' = Append(calls, Call("lipo", 0, thin_stubs, res))
          /\ IF res = "ok"
             THEN /\ pc' = "write"
                  /\ UNCHANGED fail
             ELSE ReturnFalse("ToolchainFailure:lipo")
    /\ UNCHANGED <<binaries, args, idx, locals, stub_path, thin_stubs, written>>
    /\ UNCHANGED pruned

(* lines 423-431 with create_fat_stub_dylib, lines 127-150 *)
FatStub ==
    /\ pc = "loop"
    /\ idx > Len(binaries)
    /\ IF thin_stubs = <<>>
       THEN /\ pc' = "write"
            /\ UNCHANGED <<fail, calls>>
       ELSE \E res \in ProcessResults :
               /\ calls' = Append(calls, Call("lipo", 0, thin_stubs, res))
               /\ IF res = "ok"
                  THEN /\ pc' = "write"
                       /\ UNCHANGED fail
                  ELSE ReturnFalse("ToolchainFailure:lipo")
    /\ UNCHANGED <<binaries, args, idx, locals, stub_path, thin_stubs, written>>
    /\ UNCHANGED pruned

(* lines 433-434: the only serialization of the image *)
WriteImage ==
    /\ pc = "write"
    /\ written' = written + 1
    /\ pc' = "done"
    /\ UNCHANGED <<binaries, args, idx, fail, locals, stub_path, thin_stubs, calls>>
    /\ UNCHANGED pruned

Next ==
    \/ Snapshot
    \/ PatchHeader
    \/ PruneDependencies
    \/ RemoveDylibs
    \/ AddStub
    \/ NewOrdinals
    \/ OrigToNew
    \/ RewriteBindings
    \/ RewriteSymtab
    \/ ThinStub
    \/ FatStub
    \/ WriteImage

Spec == Init /\ [][Next]_vars

SpecFat == InitFat /\ [][Next]_vars

SpecWide == InitWide /\ [][Next]_vars

(* ------------------------ vocabulary of the claims --------------------- *)
Slices == 1..Len(binaries)

(* slice j has been through both ordinal-rewrite passes *)
PassesDone(j) == j < idx \/ (j = idx /\ pc = "thin")

DepCount(j) == Len(NonSelf(binaries[j].libraries))

ParsedDeps(j) == NonSelf(parsed[j].libraries)

StubEntries(j) ==
    {i \in DOMAIN binaries[j].libraries :
        binaries[j].libraries[i] = LoadCmd(StubPath)}

(* position of the stub entry among the non-self entries of slice j *)
StubOrdinal(j) ==
    CHOOSE i \in 1..DepCount(j) : NonSelf(binaries[j].libraries)[i].name = StubPath

(* symbols of the parsed slice whose binding record names a removed library *)
OrphanSet(j) ==
    {k \in DOMAIN parsed[j].symbols :
        /\ has_library(parsed[j], parsed[j].symbols[k])
        /\ library_name(parsed[j], parsed[j].symbols[k]) \in pruned[j]}

(* symbols of the parsed slice whose packed descriptor names a removed library *)
LegacyRefsRemoved(j) ==
    {k \in DOMAIN parsed[j].symbols :
        LET sym == parsed[j].symbols[k]
            o == get_library_ordinal(sym.description)
        IN /\ sym.origin = "SYM_ORIGIN_LC_SYMTAB"
           /\ o \in 1..Len(ParsedDeps(j))
           /\ o \notin LegacySentinels
           /\ ParsedDeps(j)[o].name \in pruned[j]}

(* C1: after both rewrite passes of a slice, every ordinal held by one of
   its symbols, in the binding record or in the packed descriptor, is a
   sentinel or lies in 1..M, M the number of non-self entries of the
   slice's table after removal. *)
C1_NoDanglingReference ==
    \A j \in Slices : PassesDone(j) =>
        \A k \in DOMAIN binaries[j].symbols :
            LET sym == binaries[j].symbols[k] IN
            /\ sym.has_binding_info =>
                  sym.library_ordinal \in ModernSentinels \cup (1..DepCount(j))
            /\ sym.origin = "SYM_ORIGIN_LC_SYMTAB" =>
                  get_library_ordinal(sym.description) \in
                      LegacySentinels \cup (1..DepCount(j))

C1_Witness ==
    /\ pc = "thin"
    /\ remove_dylib_set # {}
    /\ OrphanSet(idx) # {}
    /\ DepCount(idx) < Len(ParsedDeps(idx))
    /\ \E k \in DOMAIN binaries[idx].symbols :
          /\ binaries[idx].symbols[k].has_binding_info
          /\ binaries[idx].symbols[k].origin = "SYM_ORIGIN_LC_SYMTAB"
          /\ parsed[idx].symbols[k].library_ordinal = Len(ParsedDeps(idx))
          /\ binaries[idx].symbols[k].library_ordinal < Len(ParsedDeps(idx))

(* C2: a symbol whose reference is a sentinel before the passes has the
   same value after them, in both encodings, and the conversion does not
   fail because of it. *)
C2_SentinelPassthrough ==
    /\ \A j \in Slices : PassesDone(j) =>
          \A k \in DOMAIN parsed[j].symbols :
              LET before == parsed[j].symbols[k]
                  after == binaries[j].symbols[k]
              IN /\ (before.has_binding_info /\ before.library_ordinal \in ModernSentinels)
                        => after.library_ordinal = before.library_ordinal
                 /\ (before.origin = "SYM_ORIGIN_LC_SYMTAB" /\
                     get_library_ordinal(before.description) \in LegacySentinels)
                        => after.description = before.description
    /\ ~(/\ pc = "aborted"
          /\ fail = "out_of_range:bindings"
          /\ \A k \in DOMAIN binaries[idx].symbols :
                LET sym == binaries[idx].symbols[k] IN
                sym.has_binding_info =>
                    \/ sym.library_ordinal \in ModernSentinels
                    \/ sym.library_ordinal \in DOMAIN orig_to_new_ordinal_map)

(* C3: a stub entry is appended to a slice iff its orphan set is non-empty,
   never more than one, and after the passes every orphaned symbol holds the
   stub entry's ordinal of the recomputed table, in each encoding it has. *)
C3_SingleStub ==
    \A j \in Slices :
        /\ Cardinality(StubEntries(j)) <= 1
        /\ PassesDone(j) =>
              /\ (StubEntries(j) # {}) <=> (OrphanSet(j) # {})
              /\ \A k \in OrphanSet(j) :
                    LET sym == binaries[j].symbols[k] IN
                    /\ sym.library_ordinal = StubOrdinal(j)
                    /\ sym.origin = "SYM_ORIGIN_LC_SYMTAB" =>
                          get_library_ordinal(sym.description) = StubOrdinal(j)

C3_Witness ==
    /\ pc = "thin"
    /\ Cardinality(pruned[idx]) = 2
    /\ Cardinality({library_name(parsed[idx], parsed[idx].symbols[k]) :
                        k \in OrphanSet(idx)}) = 2
    /\ \E k \in OrphanSet(idx) :
          binaries[idx].symbols[k].origin = "SYM_ORIGIN_LC_SYMTAB"

(* the ordinals of m are a bijection between the non-self entries of libs
   and 1..N in declaration order, and no self entry has an ordinal *)
IsOrdinalBijection(m, libs) ==
    /\ DOMAIN m = {NonSelf(libs)[i].name : i \in 1..Len(NonSelf(libs))}
    /\ \A i \in 1..Len(NonSelf(libs)) : m[NonSelf(libs)[i].name] = i
    /\ \A i \in DOMAIN libs : IsSelf(libs[i]) => libs[i].name \notin DOMAIN m

(* C4: with unique names, orig_ordinal_map (built from the table as parsed)
   and new_ordinal_map (built after the self entry was added, the removal
   set removed and the stub appended) are bijections between the non-self
   entries and 1..N in declaration order; the self entry has no ordinal. *)
C4_OrdinalBijection ==
    /\ pc \in {"header", "prune", "remove", "stub", "ordinals", "remap",
                "bindings", "symtab", "thin"}
          => IsOrdinalBijection(orig_ordinal_map, parsed[idx].libraries)
    /\ pc = "remap" => IsOrdinalBijection(new_ordinal_map, binaries[idx].libraries)

C4_Witness ==
    /\ pc = "remap"
    /\ remove_dylib_set # {}
    /\ StubEntries(idx) # {}
    /\ DepCount(idx) >= 2
    /\ \E i \in DOMAIN binaries[idx].libraries : IsSelf(binaries[idx].libraries[i])

(* C5: when an explicitly requested name is absent from a slice's table as
   parsed, dylibify returns failure and nothing has been mutated or
   produced: every slice is as parsed, no compiler or fusion call was made,
   no thin stub exists and no image was written. *)
C5_AbsentNameNoMutation ==
    fail = "DependencyNotFound" =>
        /\ pc = "failed"
        /\ binaries = parsed
        /\ calls = <<>>
        /\ thin_stubs = <<>>
        /\ written = 0

(* a dependency of slice j was removed, some symbol still carried its
   original ordinal in either encoding, and no stub was added *)
StubRequiredButMissing(j) ==
    /\ StubEntries(j) = {}
    /\ \/ OrphanSet(j) # {}
       \/ LegacyRefsRemoved(j) # {}

(* C6: when a removed dependency is still referenced by a symbol and no stub
   was added for the slice, the conversion fails instead of completing the
   rewrite passes with that symbol's ordinal changed to another value. *)
C6_StubRequiredButMissing ==
    \A j \in Slices : PassesDone(j) => ~StubRequiredButMissing(j)

ClangCalls == SelectSeq(calls, LAMBDA c : c.tool = "clang")

LipoCalls == SelectSeq(calls, LAMBDA c : c.tool = "lipo")

(* C7: the image is written at most once, only after every slice was
   processed and every compiler and fusion call succeeded; a failed call is
   the last call of the run (no retry), and a run that failed or aborted has
   written nothing. *)
C7_FailFastSerialization ==
    /\ written <= 1
    /\ written = 1 =>
          /\ idx = Len(binaries) + 1
          /\ fail = "none"
          /\ \A i \in DOMAIN calls : calls[i].result = "ok"
          /\ \A j \in Slices : binaries[j].file_type = "MH_DYLIB"
    /\ \A i \in DOMAIN calls :
          calls[i].result # "ok" => i = Len(calls) /\ pc = "failed" /\ written = 0
    /\ \A i, k \in DOMAIN calls :
          (i # k /\ calls[i].tool = calls[k].tool) => calls[i].slice # calls[k].slice
    /\ pc \in {"failed", "aborted"} => written = 0 /\ fail # "none"

C7_Witness ==
    /\ written = 1
    /\ Len(binaries) = 2
    /\ Len(ClangCalls) = 2
    /\ Len(LipoCalls) = 1

C7_WitnessFailure ==
    /\ pc = "failed"
    /\ fail = "ToolchainFailure:clang"
    /\ idx = 2

AsSet(seq) == {seq[i] : i \in DOMAIN seq}

InputArchs == {ArchOf(parsed[j].cpu_type) : j \in DOMAIN parsed}

(* C8 as stated: the thin stubs handed to the fusion step cover exactly the
   architectures of the slices of the input. *)
C8_FatStubCoversInput ==
    \A i \in DOMAIN calls :
        (calls[i].tool = "lipo" /\ calls[i].result = "ok")
            => AsSet(calls[i].inputs) = InputArchs

(* C8 amended: the thin stubs handed to the fusion step cover exactly the
   architectures of the slices whose orphan set is non-empty. *)
C8_FatStubCoversOrphanedSlices ==
    \A i \in DOMAIN calls :
        calls[i].tool = "lipo" =>
            /\ Len(pruned) = Len(parsed)
            /\ AsSet(calls[i].inputs) =
                  {ArchOf(parsed[j].cpu_type) : j \in {x \in DOMAIN parsed : OrphanSet(x) # {}}}

C8_Witness ==
    /\ pc = "done"
    /\ Len(LipoCalls) = 1
    /\ Len(parsed) = 2
    /\ Len(pruned) = 2
    /\ OrphanSet(1) = {}
    /\ OrphanSet(2) # {}
    /\ parsed[1].cpu_type # parsed[2].cpu_type

(* the slices before slice n whose orphan set is non-empty, in order *)
RECURSIVE OrphanedSlices(_)
OrphanedSlices(n) ==
    IF n = 0 THEN <<>>
    ELSE IF OrphanSet(n) # {} THEN Append(OrphanedSlices(n - 1), n)
    ELSE OrphanedSlices(n - 1)

SliceOf(seq) == [i \in DOMAIN seq |-> seq[i].slice]

(* C9: a run that processes every slice invokes the compiler exactly once
   for each slice with a non-empty orphan set, in slice order, and then the
   fusion utility exactly once if there was such a slice and never
   otherwise; at any point the compiler calls made are those of the
   orphaned slices processed so far and a fusion call is the last call. *)
C9_InvocationCount ==
    /\ pc \in {"write", "done"} =>
          /\ SliceOf(ClangCalls) = OrphanedSlices(Len(parsed))
          /\ Len(LipoCalls) = (IF OrphanedSlices(Len(parsed)) # <<>> THEN 1 ELSE 0)
    /\ pc \in {"loop", "header", "prune"} =>
          SliceOf(ClangCalls) = OrphanedSlices(idx - 1)
    /\ Len(LipoCalls) <= 1
    /\ \A i \in DOMAIN calls :
          calls[i].tool = "lipo" =>
              /\ i = Len(calls)
              /\ idx = Len(parsed) + 1
              /\ i > 1

C9_Witness ==
    /\ pc = "done"
    /\ Len(parsed) = 2
    /\ SliceOf(ClangCalls) = <<1, 2>>
    /\ Len(LipoCalls) = 1

C9_WitnessNoOrphans ==
    /\ pc = "done"
    /\ Len(parsed) = 2
    /\ pruned[1] # {}
    /\ calls = <<>>

(* number of removed entries declared before position i of the parsed table *)
RemovedBefore(j, i) ==
    Cardinality({p \in 1..(i - 1) : ParsedDeps(j)[p].name \in pruned[j]})

(* C10: when the removal set is non-empty and no symbol references a removed
   dependency, the slice ends with |removal set| fewer non-self entries, no
   stub entry, and every surviving dependency's new ordinal is its old
   ordinal minus the number of removed entries declared before it; symbols
   that referenced a survivor hold that new ordinal. *)
C10_RemovalWithoutOrphans ==
    \A j \in Slices :
        (PassesDone(j) /\ pruned[j] # {} /\ OrphanSet(j) = {} /\ LegacyRefsRemoved(j) = {}) =>
            /\ DepCount(j) = Len(ParsedDeps(j)) - Cardinality(pruned[j])
            /\ StubEntries(j) = {}
            /\ \A i \in 1..Len(ParsedDeps(j)) :
                  ParsedDeps(j)[i].name \notin pruned[j] =>
                      /\ i - RemovedBefore(j, i) \in 1..DepCount(j)
                      /\ NonSelf(binaries[j].libraries)[i - RemovedBefore(j, i)]
                            = ParsedDeps(j)[i]
                      /\ (j = idx /\ pc = "thin") =>
                            /\ orig_to_new_ordinal_map[i] = i - RemovedBefore(j, i)
                            /\ new_ordinal_map[ParsedDeps(j)[i].name] = i - RemovedBefore(j, i)
            /\ \A k \in DOMAIN parsed[j].symbols :
                  LET before == parsed[j].symbols[k]
                      after == binaries[j].symbols[k]
                      o == get_library_ordinal(before.description)
                  IN /\ before.has_binding_info =>
                        after.library_ordinal =
                            before.library_ordinal - RemovedBefore(j, before.library_ordinal)
                     /\ (before.origin = "SYM_ORIGIN_LC_SYMTAB" /\ o \notin LegacySentinels) =>
                        get_library_ordinal(after.description) = o - RemovedBefore(j, o)

C10_Witness ==
    /\ pc = "thin"
    /\ pruned[idx] # {}
    /\ OrphanSet(idx) = {}
    /\ LegacyRefsRemoved(idx) = {}
    /\ \E i \in 1..Len(ParsedDeps(idx)) :
          /\ ParsedDeps(idx)[i].name \notin pruned[idx]
          /\ RemovedBefore(idx, i) > 0
          /\ \E k \in DOMAIN parsed[idx].symbols :
                /\ parsed[idx].symbols[k].library_ordinal = i
                /\ parsed[idx].symbols[k].has_binding_info
                /\ binaries[idx].symbols[k].library_ordinal = i - 1

(* C11: in the symtab pass, for every descriptor d that is rewritten and the
   new ordinal o the old-to-new map gives for it, the rewritten descriptor
   keeps the low 8 bits of d, get_library_ordinal of it is o itself, and an
   o that names a dependency of the recomputed table does not read back as
   one of the legacy sentinels. *)
C11_LegacyDescriptorWrite ==
    pc = "thin" =>
        \A k \in DOMAIN parsed[idx].symbols :
            LET d == parsed[idx].symbols[k].description
                o == orig_to_new_ordinal_map[get_library_ordinal(d)]
                w == binaries[idx].symbols[k].description
            IN ~SymtabSkipped(parsed[idx].symbols[k]) =>
                  /\ w % 256 = d % 256
                  /\ get_library_ordinal(w) = o
                  /\ o \in 1..DepCount(idx) => get_library_ordinal(w) \notin LegacySentinels

====
